---- MODULE Spec2Model ----
(***************************************************************************)
(* The pebbles game contract of src/src/lib.rs as a state machine.         *)
(*                                                                         *)
(* The program's state is the static PEBBLES_GAME (an Option<GameState>).  *)
(* Each entry point (init, handle, state) processes one message and is one *)
(* action.  What a message leaves behind for an observer is recorded too:  *)
(* the replies it sent, the panic that ended it (if any), the values the   *)
(* random source returned and the calls made to the computer's decision    *)
(* procedure.                                                              *)
(*                                                                         *)
(* u32 is modelled with Width bits instead of 32, so that the extreme      *)
(* values (0 and 2^Width - 1) are inputs TLC can enumerate; arithmetic is  *)
(* done modulo 2^Width exactly where Rust's u32 arithmetic is.  A build    *)
(* either checks arithmetic overflow (it panics) or does not (it wraps):   *)
(* overflow_checks is chosen once, in Init.                                *)
(***************************************************************************)
EXTENDS Integers, Sequences, FiniteSets, TLC

\* ---------------------------------------------------------------- bounds
\* Number of bits of the modelled u32.
Width == 3
\* Largest "ordinary" pebbles_count offered to Create/Restart.
MaxPebbles == 4
\* Largest "ordinary" max_pebbles_per_turn offered to Create/Restart.
MaxPerTurn == 2
\* Largest "ordinary" value the random source returns.
MaxDraw == 1

Modulus == 2 ^ Width
UMax == Modulus - 1

\* The inputs the environment may send: small values and the largest u32.
Counts == (0 .. MaxPebbles) \cup {UMax}
Caps == (0 .. MaxPerTurn) \cup {UMax}
Takes == (0 .. (MaxPerTurn + 1)) \cup {UMax}
Draws == (0 .. MaxDraw) \cup {UMax}
Difficulties == {"Easy", "Hard"}

\* ------------------------------------------------------ panics and events
NoPanic == "none"
PanicNotInitialized == "Game state is not initialized"
PanicInvalidNumber == "Invalid number of pebbles taken"
PanicNotEnough == "Not enough pebbles remaining"
PanicAddOverflow == "attempt to add with overflow"
PanicSubOverflow == "attempt to subtract with overflow"
PanicRemZero == "attempt to calculate the remainder with a divisor of zero"

\* The error kind of the specification's taxonomy a panic message stands for.
ErrorKind(p) ==
    CASE p = PanicNotInitialized -> "NotInitialized"
      [] p = PanicInvalidNumber -> "InvalidMove"
      [] p = PanicNotEnough -> "InsufficientPebbles"
      [] p = NoPanic -> "none"
      [] OTHER -> "ArithmeticPanic"

CounterTurn(n) == [kind |-> "CounterTurn", pebbles |-> n, player |-> "None"]
Won(p) == [kind |-> "Won", pebbles |-> 0, player |-> p]
StateReply == [kind |-> "State", pebbles |-> 0, player |-> "None"]

\* A message as the program decodes it: PebblesInit for init (op "init"),
\* a PebblesAction for handle, nothing for state.
Message(op, pebbles_taken, pebbles_count, max_pebbles_per_turn, difficulty) ==
    [op |-> op, pebbles_taken |-> pebbles_taken,
     pebbles_count |-> pebbles_count,
     max_pebbles_per_turn |-> max_pebbles_per_turn,
     difficulty |-> difficulty]

Min(a, b) == IF a <= b THEN a ELSE b

VARIABLES
    PEBBLES_GAME,     \* Option<GameState>: <<>> is None, <<gs>> is Some(gs)
    overflow_checks,  \* the build panics on arithmetic overflow (else wraps)
    init_done,        \* init() has been run (a program is initialised once)
    action,           \* the last message processed
    panic,            \* the panic message that ended it, or NoPanic
    reply,            \* the replies it sent (msg::reply), in order
    drawn,            \* the values get_random_u32 returned during it
    calls,            \* the calls of get_contract_pebbles_taken during it
    committed,        \* history: in this session the Hard computer has moved
                      \* from a pile that is no multiple of max + 1
    turns             \* history: the Turns served without a panic since the
                      \* session was built by init or Restart

vars == <<PEBBLES_GAME, overflow_checks, init_done, action, panic, reply,
          drawn, calls, committed, turns>>

\* ------------------------------------------------------- pure functions

\* A value of type u32 or the panic that the computation ended in.
Value(v) == [panic |-> NoPanic, val |-> v]
Panicked(p) == [panic |-> p, val |-> 0]

\* a + b on u32.
U32Add(a, b, checks) ==
    IF a + b <= UMax THEN Value(a + b)
    ELSE IF checks THEN Panicked(PanicAddOverflow)
    ELSE Value((a + b) % Modulus)

\* a - b on u32.
U32Sub(a, b, checks) ==
    IF a >= b THEN Value(a - b)
    ELSE IF checks THEN Panicked(PanicSubOverflow)
    ELSE Value((a - b) % Modulus)

\* a % b on u32: a zero divisor panics in every build.
U32Rem(a, b) ==
    IF b = 0 THEN Panicked(PanicRemZero) ELSE Value(a % b)

get_first_player(random_number) ==
    IF random_number % 2 = 0 THEN "User" ELSE "Program"

\* HardTaken with the remainder taken modulo the cap instead of the cap + 1.
HardTakenModCap(pebbles_remaining, max_pebbles_per_turn, checks) ==
    LET optimal == U32Rem(pebbles_remaining, max_pebbles_per_turn)
    IN  IF optimal.panic # NoPanic THEN optimal
        ELSE IF optimal.val = 0 THEN Value(1)
        ELSE optimal

\* The Hard branch of get_contract_pebbles_taken.
HardTaken(pebbles_remaining, max_pebbles_per_turn, checks) ==
    LET divisor == U32Add(max_pebbles_per_turn, 1, checks)
        optimal == IF divisor.panic # NoPanic THEN divisor
                   ELSE U32Rem(pebbles_remaining, divisor.val)
    IN  IF optimal.panic # NoPanic THEN optimal
        ELSE IF optimal.val = 0 THEN Value(1)
        ELSE optimal

\* EasyTaken without the clipping to the pile.
EasyTakenUnclipped(pebbles_remaining, max_pebbles_per_turn, random_number) ==
    LET rem == U32Rem(random_number, max_pebbles_per_turn)
    IN  IF rem.panic # NoPanic THEN rem
        ELSE Value(rem.val + 1)

\* The Easy branch of get_contract_pebbles_taken.
EasyTaken(pebbles_remaining, max_pebbles_per_turn, random_number) ==
    LET rem == U32Rem(random_number, max_pebbles_per_turn)
    IN  IF rem.panic # NoPanic THEN rem
        ELSE Value(Min(rem.val + 1, pebbles_remaining))

\* get_contract_pebbles_taken with Hard playing as Easy does.
get_contract_pebbles_taken_easy(pebbles_remaining, max_pebbles_per_turn, difficulty, random_number, checks) ==
    EasyTaken(pebbles_remaining, max_pebbles_per_turn, random_number)

get_contract_pebbles_taken(pebbles_remaining, max_pebbles_per_turn, difficulty, random_number, checks) ==
    IF difficulty = "Easy"
    THEN EasyTaken(pebbles_remaining, max_pebbles_per_turn, random_number)
    ELSE HardTaken(pebbles_remaining, max_pebbles_per_turn, checks)

\* The values the opening move's draw can have: get_random_u32 is called a
\* second time only when the program starts an Easy game (else the value
\* is not read, and r1 stands in for it).
OpeningDraws(difficulty, r1) ==
    IF difficulty = "Easy" /\ r1 % 2 = 1 THEN Draws ELSE {r1}

\* The record of one call of get_contract_pebbles_taken.
Call(pebbles_remaining, taken) ==
    [pebbles_remaining |-> pebbles_remaining,
     taken |-> IF taken.panic = NoPanic THEN <<taken.val>> ELSE <<>>]

\* The values get_contract_pebbles_taken draws: Easy draws one.
DrawnBy(difficulty, random_number) ==
    IF difficulty = "Easy" THEN <<random_number>> ELSE <<>>

\* What part of a message's processing produced: the panic that ended it or
\* the GameState it built, the replies sent, the draws and the calls made.
Outcome(p, gs, rs, ds, cs) ==
    [panic |-> p, state |-> gs, reply |-> rs, drawn |-> ds, calls |-> cs]

GameState(count, max, remaining, difficulty, first, winner) ==
    [pebbles_count |-> count, max_pebbles_per_turn |-> max,
     pebbles_remaining |-> remaining, difficulty |-> difficulty,
     first_player |-> first, winner |-> winner]

\* get_init_pebbles_remain with the opening move treated as a reply to a
\* Turn is: a move that empties the pile makes the program the winner.
get_init_pebbles_remain_win(pebbles_count, max_pebbles_per_turn, first_player, difficulty, r1, r2, checks) ==
    LET gs(rem, w) == GameState(pebbles_count, max_pebbles_per_turn, rem,
                                difficulty, first_player, w)
    IN  IF first_player = "Program"
        THEN LET taken == get_contract_pebbles_taken(
                              pebbles_count, max_pebbles_per_turn,
                              difficulty, r2, checks)
                 ds == <<r1>> \o DrawnBy(difficulty, r2)
                 cs == <<Call(pebbles_count, taken)>>
                 left == IF taken.panic # NoPanic THEN taken
                         ELSE U32Sub(pebbles_count, taken.val, checks)
             IN  IF left.panic # NoPanic
                 THEN Outcome(left.panic, <<>>, <<>>, ds, cs)
                 ELSE IF left.val = 0
                 THEN Outcome(NoPanic, <<gs(0, "Program")>>,
                              <<Won("Program")>>, ds, cs)
                 ELSE Outcome(NoPanic, <<gs(left.val, "None")>>,
                              <<CounterTurn(taken.val)>>, ds, cs)
        ELSE Outcome(NoPanic, <<gs(pebbles_count, "None")>>, <<>>, <<r1>>, <<>>)

\* get_init_pebbles_remain, with the rest of the state the callers build
\* around its result.  r1 is the draw of get_first_player (made by the
\* caller), r2 the draw of the opening move.
get_init_pebbles_remain(pebbles_count, max_pebbles_per_turn, first_player, difficulty, r1, r2, checks) ==
    LET gs(rem) == GameState(pebbles_count, max_pebbles_per_turn, rem,
                             difficulty, first_player, "None")
    IN  IF first_player = "Program"
        THEN LET taken == get_contract_pebbles_taken(
                              pebbles_count, max_pebbles_per_turn,
                              difficulty, r2, checks)
                 ds == <<r1>> \o DrawnBy(difficulty, r2)
                 cs == <<Call(pebbles_count, taken)>>
                 left == IF taken.panic # NoPanic THEN taken
                         ELSE U32Sub(pebbles_count, taken.val, checks)
             IN  IF left.panic # NoPanic
                 THEN Outcome(left.panic, <<>>, <<>>, ds, cs)
                 ELSE Outcome(NoPanic, <<gs(left.val)>>,
                              <<CounterTurn(taken.val)>>, ds, cs)
        ELSE Outcome(NoPanic, <<gs(pebbles_count)>>, <<>>, <<r1>>, <<>>)

restart_game(difficulty, pebbles_count, max_pebbles_per_turn, r1, r2, checks) ==
    get_init_pebbles_remain(pebbles_count, max_pebbles_per_turn,
                            get_first_player(r1), difficulty, r1, r2, checks)

\* update_game_state without the test for an emptied pile, as the opening
\* move is written: the move is always announced by CounterTurn.
update_game_state_no_win(game_state, random_number, checks) ==
    LET taken == get_contract_pebbles_taken(
                     game_state.pebbles_remaining,
                     game_state.max_pebbles_per_turn,
                     game_state.difficulty, random_number, checks)
        ds == DrawnBy(game_state.difficulty, random_number)
        cs == <<Call(game_state.pebbles_remaining, taken)>>
        left == IF taken.panic # NoPanic THEN taken
                ELSE U32Sub(game_state.pebbles_remaining, taken.val, checks)
    IN  IF left.panic # NoPanic
        THEN Outcome(left.panic, <<>>, <<>>, ds, cs)
        ELSE Outcome(NoPanic,
                     <<[game_state EXCEPT !.pebbles_remaining = left.val]>>,
                     <<CounterTurn(taken.val)>>, ds, cs)

update_game_state(game_state, random_number, checks) ==
    LET taken == get_contract_pebbles_taken(
                     game_state.pebbles_remaining,
                     game_state.max_pebbles_per_turn,
                     game_state.difficulty, random_number, checks)
        ds == DrawnBy(game_state.difficulty, random_number)
        cs == <<Call(game_state.pebbles_remaining, taken)>>
        left == IF taken.panic # NoPanic THEN taken
                ELSE U32Sub(game_state.pebbles_remaining, taken.val, checks)
    IN  IF left.panic # NoPanic
        THEN Outcome(left.panic, <<>>, <<>>, ds, cs)
        ELSE IF left.val = 0
        THEN Outcome(NoPanic,
                     <<[game_state EXCEPT !.pebbles_remaining = 0,
                                          !.winner = "Program"]>>,
                     <<Won("Program")>>, ds, cs)
        ELSE Outcome(NoPanic,
                     <<[game_state EXCEPT !.pebbles_remaining = left.val]>>,
                     <<CounterTurn(taken.val)>>, ds, cs)

\* TurnCheck with its two checks in the other order.
TurnCheckPileFirst(game_state, pebbles_taken) ==
    IF pebbles_taken > game_state.pebbles_remaining
    THEN PanicNotEnough
    ELSE IF pebbles_taken > game_state.max_pebbles_per_turn \/ pebbles_taken = 0
    THEN PanicInvalidNumber
    ELSE NoPanic

\* The two checks of a Turn: the panic they end in, or NoPanic.
TurnCheck(game_state, pebbles_taken) ==
    IF pebbles_taken > game_state.max_pebbles_per_turn \/ pebbles_taken = 0
    THEN PanicInvalidNumber
    ELSE IF pebbles_taken > game_state.pebbles_remaining
    THEN PanicNotEnough
    ELSE NoPanic

\* TurnApply without the test for an emptied pile: the computer always
\* replies.
TurnApplyNoWinCheck(game_state, pebbles_taken, random_number, checks) ==
    update_game_state([game_state EXCEPT
                          !.pebbles_remaining = @ - pebbles_taken],
                      random_number, checks)

\* The Turn arm of handle once the checks have passed.
TurnApply(game_state, pebbles_taken, random_number, checks) ==
    LET after == [game_state EXCEPT
                     !.pebbles_remaining = @ - pebbles_taken]
    IN  IF after.pebbles_remaining = 0
        THEN Outcome(NoPanic, <<[after EXCEPT !.winner = "User"]>>,
                     <<Won("User")>>, <<>>, <<>>)
        ELSE update_game_state(after, random_number, checks)

\* The Turn arm of handle.
TurnArm(game_state, pebbles_taken, random_number, checks) ==
    IF TurnCheck(game_state, pebbles_taken) # NoPanic
    THEN Outcome(TurnCheck(game_state, pebbles_taken), <<>>, <<>>, <<>>, <<>>)
    ELSE TurnApply(game_state, pebbles_taken, random_number, checks)

\* GiveUpArm that also clears the pile, as a finished game would have it.
GiveUpArmEmptiesPile(game_state) ==
    Outcome(NoPanic, <<[game_state EXCEPT !.winner = "Program",
                                         !.pebbles_remaining = 0]>>,
            <<Won("Program")>>, <<>>, <<>>)

\* The GiveUp arm of handle.
GiveUpArm(game_state) ==
    Outcome(NoPanic, <<[game_state EXCEPT !.winner = "Program"]>>,
            <<Won("Program")>>, <<>>, <<>>)

\* PEBBLES_GAME after a message of handle: the state was taken out of the
\* static at the start and is written back only when the end is reached.
WriteBack(out) == IF out.panic = NoPanic THEN out.state ELSE <<>>

\* Whether a computer move recorded in cs, made under difficulty with cap
\* max, started from a pile that is no multiple of max + 1.
FromNonMultiple(cs, difficulty, max) ==
    /\ difficulty = "Hard"
    /\ \E i \in 1 .. Len(cs) :
          /\ cs[i].taken # <<>>
          /\ cs[i].pebbles_remaining % (max + 1) # 0

\* ---------------------------------------------------------------- actions

Init ==
    /\ PEBBLES_GAME = <<>>
    /\ overflow_checks \in BOOLEAN
    /\ init_done = FALSE
    /\ action = Message("none", 0, 0, 0, "None")
    /\ panic = NoPanic
    /\ reply = <<>>
    /\ drawn = <<>>
    /\ calls = <<>>
    /\ committed = FALSE
    /\ turns = 0

\* What every message records of an outcome.
Record(out) ==
    /\ panic' = out.panic
    /\ reply' = out.reply
    /\ drawn' = out.drawn
    /\ calls' = out.calls

\* init(): the Create operation.
init ==
    /\ ~init_done
    /\ \E pebbles_count \in Counts, max_pebbles_per_turn \in Caps,
          difficulty \in Difficulties, r1 \in Draws :
          \E r2 \in OpeningDraws(difficulty, r1) :
          LET out == restart_game(difficulty, pebbles_count,
                                  max_pebbles_per_turn, r1, r2,
                                  overflow_checks)
          IN  /\ PEBBLES_GAME' = IF out.panic = NoPanic THEN out.state
                                 ELSE PEBBLES_GAME
              /\ Record(out)
              /\ committed' = (out.panic = NoPanic /\
                               FromNonMultiple(out.calls, difficulty,
                                               max_pebbles_per_turn))
              /\ action' = Message("init", 0, pebbles_count,
                                   max_pebbles_per_turn, difficulty)
    /\ init_done' = TRUE
    /\ turns' = 0
    /\ UNCHANGED overflow_checks

\* handle_uninitialized with a default GameState standing in for the missing
\* one (unwrap_or_default in place of expect), written back at the end.
handle_uninitialized_default ==
    /\ PEBBLES_GAME = <<>>
    /\ \E a \in ({"GiveUp", "Restart"} \X {0}) \cup ({"Turn"} \X Takes) :
          action' = Message(a[1], a[2], 0, 0, "None")
    /\ PEBBLES_GAME' = <<GameState(0, 0, 0, "Easy", "User", "None")>>
    /\ Record(Outcome(NoPanic, <<>>, <<>>, <<>>, <<>>))
    /\ UNCHANGED <<overflow_checks, init_done, committed, turns>>

\* handle() on a message it cannot serve: PEBBLES_GAME is None.
handle_uninitialized ==
    /\ PEBBLES_GAME = <<>>
    /\ \E a \in ({"GiveUp", "Restart"} \X {0}) \cup ({"Turn"} \X Takes) :
          action' = Message(a[1], a[2], 0, 0, "None")
    /\ Record(Outcome(PanicNotInitialized, <<>>, <<>>, <<>>, <<>>))
    /\ UNCHANGED <<PEBBLES_GAME, overflow_checks, init_done, committed, turns>>

\* handle() with PebblesAction::Turn(pebbles_taken).
handle_Turn ==
    /\ PEBBLES_GAME # <<>>
    /\ \E pebbles_taken \in Takes, r \in Draws :
          LET gs == PEBBLES_GAME[1]
              out == TurnArm(gs, pebbles_taken, r, overflow_checks)
          IN  /\ PEBBLES_GAME' = WriteBack(out)
              /\ Record(out)
              /\ action' = Message("Turn", pebbles_taken, 0, 0, "None")
              /\ turns' = IF out.panic = NoPanic THEN turns + 1 ELSE 0
              /\ committed' = (out.panic = NoPanic /\
                               (committed \/
                                FromNonMultiple(out.calls, gs.difficulty,
                                                gs.max_pebbles_per_turn)))
    /\ UNCHANGED <<overflow_checks, init_done>>

\* handle() with PebblesAction::GiveUp.
handle_GiveUp ==
    /\ PEBBLES_GAME # <<>>
    /\ LET out == GiveUpArm(PEBBLES_GAME[1])
       IN  /\ PEBBLES_GAME' = WriteBack(out)
           /\ Record(out)
    /\ action' = Message("GiveUp", 0, 0, 0, "None")
    /\ UNCHANGED <<overflow_checks, init_done, committed, turns>>

\* handle() with PebblesAction::Restart { .. }.
handle_Restart ==
    /\ PEBBLES_GAME # <<>>
    /\ \E pebbles_count \in Counts, max_pebbles_per_turn \in Caps,
          difficulty \in Difficulties, r1 \in Draws :
          \E r2 \in OpeningDraws(difficulty, r1) :
          LET out == restart_game(difficulty, pebbles_count,
                                  max_pebbles_per_turn, r1, r2,
                                  overflow_checks)
          IN  /\ PEBBLES_GAME' = WriteBack(out)
              /\ Record(out)
              /\ committed' = (out.panic = NoPanic /\
                               FromNonMultiple(out.calls, difficulty,
                                               max_pebbles_per_turn))
              /\ action' = Message("Restart", 0, pebbles_count,
                                   max_pebbles_per_turn, difficulty)
    /\ turns' = 0
    /\ UNCHANGED <<overflow_checks, init_done>>

\* state(): the query.
state ==
    /\ action' = Message("state", 0, 0, 0, "None")
    /\ IF PEBBLES_GAME = <<>>
       THEN Record(Outcome(PanicNotInitialized, <<>>, <<>>, <<>>, <<>>))
       ELSE Record(Outcome(NoPanic, PEBBLES_GAME, <<StateReply>>, <<>>, <<>>))
    /\ UNCHANGED <<PEBBLES_GAME, overflow_checks, init_done, committed, turns>>

Next ==
    \/ init
    \/ handle_uninitialized
    \/ handle_Turn
    \/ handle_GiveUp
    \/ handle_Restart
    \/ state

Spec == Init /\ [][Next]_vars

\* ----------------------------------------------------------------- claims

Has == PEBBLES_GAME # <<>>
gs == PEBBLES_GAME[1]
HasNext == PEBBLES_GAME' # <<>>
gsNext == PEBBLES_GAME'[1]

\* C1 (as claimed): with max_pebbles_per_turn >= 1, in every reachable state
\* 0 <= pebbles_remaining <= pebbles_count, and no computer move recorded for
\* the last message took more than the pile it was decided on held.
C1_RemainingWithinCount ==
    (Has /\ gs.max_pebbles_per_turn >= 1) =>
        /\ 0 <= gs.pebbles_remaining
        /\ gs.pebbles_remaining <= gs.pebbles_count
        /\ \A i \in 1 .. Len(calls) :
              calls[i].taken # <<>> =>
                  calls[i].taken[1] <= calls[i].pebbles_remaining

\* C2 (as claimed): a Turn that fails validation (here on a session with
\* max_pebbles_per_turn >= 1) leaves every field of the GameState as it was
\* and sends no reply.
C2_FailedTurnMutatesNothing ==
    [][ (Has /\ gs.max_pebbles_per_turn >= 1 /\ action'.op = "Turn"
             /\ ErrorKind(panic') \in {"InvalidMove", "InsufficientPebbles"})
        => (PEBBLES_GAME' = PEBBLES_GAME /\ reply' = <<>>) ]_vars

\* C3 (as claimed): once a session exists, no Turn or GiveUp makes the
\* program uninitialised again: PEBBLES_GAME still holds a GameState after
\* it (so that state() and the next action find one).
C3_NeverUninitializedAgain ==
    [][ (Has /\ gs.max_pebbles_per_turn >= 1
             /\ action'.op \in {"Turn", "GiveUp"}) => HasNext ]_vars

\* C4: a Turn(n) on an initialised session ends with InvalidMove when n = 0
\* or n > max_pebbles_per_turn (whatever the pile holds), with
\* InsufficientPebbles when 1 <= n <= max_pebbles_per_turn and
\* n > pebbles_remaining, and passes validation (none of the error kinds
\* of a Turn, nor NotInitialized) otherwise.
C4_TurnValidationOrder ==
    [][ (Has /\ action'.op = "Turn") =>
          LET n == action'.pebbles_taken
              k == ErrorKind(panic')
          IN  /\ n = 0 => k = "InvalidMove"
              /\ n > gs.max_pebbles_per_turn => k = "InvalidMove"
              /\ (1 <= n /\ n <= gs.max_pebbles_per_turn
                         /\ n > gs.pebbles_remaining)
                    => k = "InsufficientPebbles"
              /\ (1 <= n /\ n <= Min(gs.max_pebbles_per_turn,
                                     gs.pebbles_remaining))
                    => k \notin {"InvalidMove", "InsufficientPebbles",
                                 "NotInitialized"} ]_vars

\* C4's case: a Turn within the cap that asks for more than the pile holds
\* has ended with "Not enough pebbles remaining".
C4_Witness ==
    /\ action.op = "Turn"
    /\ action.pebbles_taken >= 1
    /\ panic = PanicNotEnough

\* C5 (as claimed): from every state (here with max_pebbles_per_turn >= 1
\* and a pile that is not empty), Turn(pebbles_remaining) yields
\* winner = Some(User), replies Won(User) and makes no computer move.
C5_TakingThePileAlwaysWins ==
    [][ (Has /\ gs.max_pebbles_per_turn >= 1 /\ action'.op = "Turn"
             /\ gs.pebbles_remaining >= 1
             /\ action'.pebbles_taken = gs.pebbles_remaining)
        => (HasNext /\ gsNext.winner = "User"
                    /\ reply' = <<Won("User")>> /\ calls' = <<>>) ]_vars

\* C5 (amended): Turn(pebbles_remaining) with
\* 1 <= pebbles_remaining <= max_pebbles_per_turn ends without a panic,
\* empties the pile, sets winner = Some(User), replies exactly Won(User)
\* and makes no computer move.
C5_TakingALegalPileWins ==
    [][ (Has /\ action'.op = "Turn"
             /\ action'.pebbles_taken = gs.pebbles_remaining
             /\ 1 <= gs.pebbles_remaining
             /\ gs.pebbles_remaining <= gs.max_pebbles_per_turn)
        => (/\ panic' = NoPanic
            /\ HasNext
            /\ gsNext = [gs EXCEPT !.pebbles_remaining = 0,
                                   !.winner = "User"]
            /\ reply' = <<Won("User")>>
            /\ calls' = <<>>) ]_vars

\* C5's case: the last message was a Turn that took the whole pile.
C5_Witness ==
    /\ Has
    /\ action.op = "Turn"
    /\ action.pebbles_taken >= 1
    /\ gs.pebbles_remaining = 0
    /\ gs.winner = "User"
    /\ reply = <<Won("User")>>

\* C6 (as claimed): once winner is Some, a Turn or GiveUp that the program
\* serves leaves pebbles_remaining as it was.
C6_TerminalPileIsFrozen ==
    [][ (Has /\ gs.max_pebbles_per_turn >= 1 /\ gs.winner # "None"
             /\ action'.op \in {"Turn", "GiveUp"} /\ HasNext)
        => gsNext.pebbles_remaining = gs.pebbles_remaining ]_vars

\* C7 (as claimed): within a session a Turn or GiveUp that the program
\* serves sets winner only when the pile is emptied or the human gives up,
\* and never changes a winner that is Some.
C7_WinnerSetOnce ==
    [][ (Has /\ gs.max_pebbles_per_turn >= 1
             /\ action'.op \in {"Turn", "GiveUp"} /\ HasNext)
        => /\ (gs.winner = "None" /\ gsNext.winner # "None")
                 => (gsNext.pebbles_remaining = 0 \/ action'.op = "GiveUp")
           /\ gs.winner # "None" => gsNext.winner = gs.winner ]_vars

\* C8: after a message in which the Hard computer moved (the opening move
\* of init or Restart, or the reply to a Turn) from a pile p > 0: if p is no
\* multiple of max_pebbles_per_turn + 1 the pile left is one (it is p minus
\* what was taken); if p is a multiple the computer took exactly 1.
C8_HardLeavesMultiple ==
    (Has /\ gs.difficulty = "Hard") =>
        \A i \in 1 .. Len(calls) :
            LET p == calls[i].pebbles_remaining
                k == gs.max_pebbles_per_turn + 1
            IN  (calls[i].taken # <<>> /\ p # 0) =>
                    /\ gs.pebbles_remaining = p - calls[i].taken[1]
                    /\ p % k # 0 => gs.pebbles_remaining % k = 0
                    /\ p % k = 0 => calls[i].taken[1] = 1

\* C8's case: the Hard computer has just replied to a Turn from a pile that
\* was no multiple of max_pebbles_per_turn + 1 and has not emptied it.
C8_Witness ==
    /\ Has
    /\ gs.difficulty = "Hard"
    /\ action.op = "Turn"
    /\ Len(calls) = 1
    /\ calls[1].taken # <<>>
    /\ calls[1].pebbles_remaining % (gs.max_pebbles_per_turn + 1) # 0
    /\ gs.pebbles_remaining > 0

\* C9: in a Hard session with max_pebbles_per_turn >= 1 in which the
\* computer has moved from a pile that is no multiple of
\* max_pebbles_per_turn + 1, after every message the pile the human faces
\* is a multiple of max_pebbles_per_turn + 1, winner is not Some(User), no
\* Won(User) was replied, and an empty pile was emptied by the computer.
C9_HardWinGuaranteed ==
    (Has /\ committed /\ gs.max_pebbles_per_turn >= 1) =>
        /\ gs.pebbles_remaining % (gs.max_pebbles_per_turn + 1) = 0
        /\ gs.winner # "User"
        /\ \A i \in 1 .. Len(reply) : reply[i] # Won("User")
        /\ (gs.pebbles_remaining = 0 /\ action.op = "Turn")
              => (calls # <<>> /\ reply = <<Won("Program")>>)

\* C9's case: the computer opened a Hard session from a pile that was no
\* multiple, the human has since made a valid Turn and the game goes on.
C9_Witness ==
    /\ Has
    /\ committed
    /\ gs.max_pebbles_per_turn >= 1
    /\ gs.first_player = "Program"
    /\ gs.pebbles_count % (gs.max_pebbles_per_turn + 1) # 0
    /\ action.op = "Turn"
    /\ gs.pebbles_remaining > 0

\* C10 (as claimed): init, or a Restart of an initialised program, with
\* (pebbles_count c, max_pebbles_per_turn m, difficulty d), here for
\* 1 <= m < 2^Width - 1, yields a GameState with these three values, no
\* winner, first_player User on an even draw and Program on an odd one,
\* and pebbles_remaining = c (User first, no computer move) or c minus
\* the one opening move the computer decided on c (Program first).
C10_CreateRestartYield ==
    (/\ action.op \in {"init", "Restart"}
     /\ panic # PanicNotInitialized
     /\ action.max_pebbles_per_turn >= 1
     /\ action.max_pebbles_per_turn < UMax)
    => /\ Has
       /\ gs.pebbles_count = action.pebbles_count
       /\ gs.max_pebbles_per_turn = action.max_pebbles_per_turn
       /\ gs.difficulty = action.difficulty
       /\ gs.winner = "None"
       /\ Len(drawn) >= 1
       /\ gs.first_player = IF drawn[1] % 2 = 0 THEN "User" ELSE "Program"
       /\ gs.first_player = "User"
             => (gs.pebbles_remaining = gs.pebbles_count /\ calls = <<>>)
       /\ gs.first_player = "Program"
             => /\ Len(calls) = 1
                /\ calls[1].pebbles_remaining = gs.pebbles_count
                /\ calls[1].taken # <<>>
                /\ gs.pebbles_remaining =
                       gs.pebbles_count - calls[1].taken[1]
                /\ reply = <<CounterTurn(calls[1].taken[1])>>

\* C11: a GiveUp on an initialised program ends without a panic, sets
\* winner = Some(Program), replies exactly Won(Program), leaves every other
\* field of the GameState as it was and makes no computer move.
C11_GiveUpFrame ==
    [][ (Has /\ action'.op = "GiveUp")
        => (/\ panic' = NoPanic
            /\ HasNext
            /\ gsNext = [gs EXCEPT !.winner = "Program"]
            /\ reply' = <<Won("Program")>>
            /\ calls' = <<>>
            /\ drawn' = <<>>) ]_vars

\* C11's case: the human has just given up a game whose pile is not empty.
C11_Witness ==
    /\ Has
    /\ action.op = "GiveUp"
    /\ gs.pebbles_remaining > 0
    /\ gs.winner = "Program"
    /\ reply = <<Won("Program")>>

\* C12: while PEBBLES_GAME is None every message other than init (a Turn,
\* GiveUp or Restart of handle, or state) ends with "Game state is not
\* initialized", sends no reply and leaves PEBBLES_GAME None; so only init
\* makes the program initialised.
C12_NotInitialized ==
    [][ (~Has /\ action'.op # "init")
        => (/\ panic' = PanicNotInitialized
            /\ ~HasNext
            /\ reply' = <<>>) ]_vars

\* C12's case: a Restart was sent before any init and was refused.
C12_Witness ==
    /\ ~init_done
    /\ ~Has
    /\ action.op = "Restart"
    /\ panic = PanicNotInitialized

\* C13 (as claimed): init, or a Restart of an initialised program, with
\* max_pebbles_per_turn = 0 is rejected: it ends with an error, PEBBLES_GAME
\* is what it was (no session created or replaced) and no reply is sent.
C13_ZeroCapRejected ==
    [][ (/\ action'.op \in {"init", "Restart"}
         /\ action'.op = "Restart" => Has
         /\ action'.max_pebbles_per_turn = 0)
        => (/\ panic' # NoPanic
            /\ PEBBLES_GAME' = PEBBLES_GAME
            /\ reply' = <<>>) ]_vars

\* C14: a Turn(n) that ends without a panic and leaves the pile non-empty
\* after the human's take is followed by exactly one computer move a,
\* decided on that pile, with 1 <= a <= max_pebbles_per_turn and
\* pebbles_remaining = old - n - a; if that is 0 then winner =
\* Some(Program) and Won(Program) is the one reply, otherwise winner stays
\* as it was (None in a game that had no winner) and CounterTurn(a) is the
\* one reply.
C14_TurnThenOneComputerMove ==
    [][ (/\ Has
         /\ action'.op = "Turn"
         /\ panic' = NoPanic
         /\ action'.pebbles_taken < gs.pebbles_remaining)
        => /\ HasNext
           /\ Len(calls') = 1
           /\ calls'[1].pebbles_remaining
                 = gs.pebbles_remaining - action'.pebbles_taken
           /\ calls'[1].taken # <<>>
           /\ LET a == calls'[1].taken[1]
              IN  /\ gsNext.pebbles_remaining
                        = gs.pebbles_remaining - action'.pebbles_taken - a
                  /\ 1 <= a
                  /\ a <= gs.max_pebbles_per_turn
                  /\ gsNext.pebbles_remaining = 0
                        => (gsNext.winner = "Program"
                            /\ reply' = <<Won("Program")>>)
                  /\ gsNext.pebbles_remaining # 0
                        => (gsNext.winner = gs.winner
                            /\ reply' = <<CounterTurn(a)>>) ]_vars

\* C14's case: in a game without a winner the computer has just answered
\* a Turn with a move that did not empty the pile.
C14_Witness ==
    /\ Has
    /\ action.op = "Turn"
    /\ panic = NoPanic
    /\ Len(calls) = 1
    /\ calls[1].taken # <<>>
    /\ gs.pebbles_remaining > 0
    /\ gs.winner = "None"
    /\ reply = <<CounterTurn(calls[1].taken[1])>>

\* C15: every computer move recorded for the last message that was decided
\* on a pile of at least 1 (Easy or Hard, any draw, max_pebbles_per_turn
\* >= 1) took at least 1, at most max_pebbles_per_turn and at most the pile.
C15_ComputerMoveIsLegal ==
    \A i \in 1 .. Len(calls) :
        (calls[i].pebbles_remaining >= 1 /\ calls[i].taken # <<>>) =>
            /\ Has
            /\ gs.max_pebbles_per_turn >= 1 =>
                  /\ 1 <= calls[i].taken[1]
                  /\ calls[i].taken[1] <= gs.max_pebbles_per_turn
                  /\ calls[i].taken[1] <= calls[i].pebbles_remaining

\* C15's case: the Easy computer, allowed to take more than the pile held,
\* has just taken exactly the pile.
C15_Witness ==
    /\ Has
    /\ gs.difficulty = "Easy"
    /\ gs.max_pebbles_per_turn >= 2
    /\ Len(calls) = 1
    /\ calls[1].pebbles_remaining = 1
    /\ calls[1].taken = <<1>>
    /\ drawn # <<>>
    /\ drawn[Len(drawn)] % gs.max_pebbles_per_turn = 1

\* C16 (as claimed): no call of get_contract_pebbles_taken is made with
\* pebbles_remaining = 0, here in sessions asked for with
\* max_pebbles_per_turn >= 1.
C16_DecisionNeverOnEmptyPile ==
    \A i \in 1 .. Len(calls) :
        (action.op = "Turn" \/ action.max_pebbles_per_turn >= 1)
            => calls[i].pebbles_remaining >= 1

\* C17: after init or Restart has built a session, winner is None and no
\* Won was replied; when the opening move took the whole (non-empty) pile,
\* pebbles_remaining is 0 and the one reply is CounterTurn(pebbles_count);
\* and in a session so left with an empty pile every Turn fails validation.
C17_OpeningMoveNeverWins ==
    (Has /\ action.op \in {"init", "Restart"}) =>
        /\ gs.winner = "None"
        /\ \A i \in 1 .. Len(reply) : reply[i].kind # "Won"
        /\ (/\ calls # <<>>
            /\ gs.pebbles_count >= 1
            /\ calls[1].taken = <<gs.pebbles_count>>)
           => (/\ gs.pebbles_remaining = 0
               /\ reply = <<CounterTurn(gs.pebbles_count)>>)
        /\ gs.pebbles_remaining = 0
           => \A n \in 0 .. UMax : TurnCheck(gs, n) # NoPanic

\* C17's case: the Hard computer opened a session whose pile was within the
\* cap and took it all: the pile is empty and there is no winner.
C17_Witness ==
    /\ Has
    /\ action.op \in {"init", "Restart"}
    /\ gs.difficulty = "Hard"
    /\ gs.first_player = "Program"
    /\ gs.pebbles_count >= 1
    /\ gs.pebbles_count <= gs.max_pebbles_per_turn
    /\ gs.pebbles_remaining = 0
    /\ gs.winner = "None"
    /\ reply = <<CounterTurn(gs.pebbles_count)>>

\* C18 (as claimed): in a session with max_pebbles_per_turn >= 1 every Turn
\* served without a panic strictly decreases pebbles_remaining, by at least
\* 2 unless it empties the pile; a pile it empties has a winner; and the
\* Turns so served since the session was built number at most
\* pebbles_count.
C18_SessionEndsWithinCount ==
    [][ (/\ Has
         /\ gs.max_pebbles_per_turn >= 1
         /\ action'.op = "Turn"
         /\ panic' = NoPanic)
        => /\ HasNext
           /\ gsNext.pebbles_remaining < gs.pebbles_remaining
           /\ \/ gsNext.pebbles_remaining + 2 <= gs.pebbles_remaining
              \/ gsNext.pebbles_remaining = 0
           /\ gsNext.pebbles_remaining = 0 => gsNext.winner # "None"
           /\ turns' <= gsNext.pebbles_count ]_vars

\* C19 (as claimed): for every max_pebbles_per_turn, the largest u32
\* included, the Hard decision of an opening move on a pile >= 1 returns
\* pebbles_remaining mod (max_pebbles_per_turn + 1) computed over the
\* unbounded integers (1 when that is 0): max_pebbles_per_turn + 1 never
\* wraps to 0.
C19_HardModulusNeverWraps ==
    (/\ action.op \in {"init", "Restart"}
     /\ action.difficulty = "Hard"
     /\ calls # <<>>
     /\ calls[1].pebbles_remaining >= 1)
    => LET optimal == calls[1].pebbles_remaining
                         % (action.max_pebbles_per_turn + 1)
       IN  calls[1].taken = <<IF optimal = 0 THEN 1 ELSE optimal>>

====
